---- MODULE Spec2Model ----
(***************************************************************************)
(* FFmpeg Editor backend (src-tauri): the process orchestration of         *)
(* commands.rs (convert_media, cancel_conversion, merge_media,             *)
(* download_video) with the shared CANCELLED flag, the parsers of          *)
(* utils.rs, the filter-chain builder of ffmpeg.rs and the argument        *)
(* filter of generate_preview.                                             *)
(*                                                                         *)
(* Numbers: f64/f32 values are modelled by integers (times in whole        *)
(* seconds); a percentage is kept as the exact fraction num/den.           *)
(* Strings the code only formats are kept as structured values.            *)
(***************************************************************************)
EXTENDS Integers, Sequences, FiniteSets, TLC

\* ------------------------------------------------------------------ bounds

\* Diagnostic (stderr) lines one ffmpeg child writes at most.
MaxLines == 3

\* The hours field of a time token handed to parse_progress at most.
MaxHours == 1

\* Settings of a ConvertOptions that differ from DefaultOptions at most.
MaxEdits == 3

\* Progress blocks the pipe on ffmpeg's standard output holds.
StdoutCapacity == 2

\* ------------------------------------------------------------------ state

VARIABLES
    CANCELLED,   \* static CANCELLED: AtomicBool
    cv,          \* the convert_media invocation (one at a time), with its child
    mg,          \* the merge_media invocation, with its child and its list file
    dl,          \* the download_video invocation, with its child
    fc,          \* a ConvertOptions and what build_filter_chain returns for it
    pp           \* a diagnostic line and what parse_progress returns for it

vars == <<CANCELLED, cv, mg, dl, fc, pp>>
jobs == <<CANCELLED, cv, mg, dl>>

\* ------------------------------------------------ utils.rs: the two parsers

\* What the regex Duration: (\d+):(\d+):(\d+\.?\d*) captures of the probe's
\* standard output: has = the pattern occurs; h, m, s = the three groups.
NoDuration == [has |-> FALSE, h |-> 0, m |-> 0, s |-> 0]

parse_duration(output) ==
    IF output.has
    THEN output.h * 3600 + output.m * 60 + output.s
    ELSE 0

\* A diagnostic line, by what the three regexes of parse_progress capture:
\* has_time with h, m, s; speed and size are the captured token, or "" when
\* the regex does not match. utf8 = FALSE is a line that is not valid UTF-8
\* (next_line returns Err for it).
NoProgress == [some |-> FALSE, percent_num |-> 0, percent_den |-> 1,
               time |-> 0, speed |-> "", size |-> ""]

\* Mutant of parse_progress: the percentage is not clamped with min(100.0).
parse_progress_unclamped(line, duration) ==
    IF line.has_time
    THEN LET current_time == line.h * 3600 + line.m * 60 + line.s
         IN  [some        |-> TRUE,
              percent_num |-> IF duration > 0 THEN current_time * 100 ELSE 0,
              percent_den |-> IF duration > 0 THEN duration ELSE 1,
              time        |-> current_time,
              speed       |-> IF line.speed # "" THEN line.speed ELSE "N/A",
              size        |-> IF line.size # "" THEN line.size ELSE "0kB"]
    ELSE NoProgress

\* Mutant of parse_progress: a line without a speed token yields no record.
parse_progress_speed_required(line, duration) ==
    IF line.has_time /\ line.speed # ""
    THEN LET current_time == line.h * 3600 + line.m * 60 + line.s
             over == current_time * 100 >= 100 * duration
         IN  [some        |-> TRUE,
              percent_num |-> IF duration > 0
                              THEN (IF over THEN 100 ELSE current_time * 100)
                              ELSE 0,
              percent_den |-> IF duration > 0 /\ ~over THEN duration ELSE 1,
              time        |-> current_time,
              speed       |-> line.speed,
              size        |-> IF line.size # "" THEN line.size ELSE "0kB"]
    ELSE NoProgress

\* utils.rs:16-51
parse_progress(line, duration) ==
    IF line.has_time
    THEN LET current_time == line.h * 3600 + line.m * 60 + line.s
             over == current_time * 100 >= 100 * duration
         IN  [some        |-> TRUE,
              percent_num |-> IF duration > 0
                              THEN (IF over THEN 100 ELSE current_time * 100)
                              ELSE 0,
              percent_den |-> IF duration > 0 /\ ~over THEN duration ELSE 1,
              time        |-> current_time,
              speed       |-> IF line.speed # "" THEN line.speed ELSE "N/A",
              size        |-> IF line.size # "" THEN line.size ELSE "0kB"]
    ELSE NoProgress

\* The lines parse_progress is handed: with or without a time token, a speed
\* token and a size token; the minutes field need not be below 60.
ParseLines ==
    { [utf8 |-> TRUE, has_time |-> t,
       h |-> IF t THEN h ELSE 0, m |-> IF t THEN m ELSE 0,
       s |-> IF t THEN sec ELSE 0, speed |-> speed, size |-> size] :
        t \in BOOLEAN, h \in 0..MaxHours, m \in {0, 30, 75}, sec \in {0, 10},
        speed \in {"", "1.5x"}, size \in {"", "1024kB"} }

\* The total durations it is handed: unknown (0), 20 s, one hour, and a
\* negative value, which the signature admits.
ParseDurations == {-5, 0, 20, 3600}

ParseIdle ==
    [line |-> [utf8 |-> TRUE, has_time |-> FALSE, h |-> 0, m |-> 0, s |-> 0,
               speed |-> "", size |-> ""],
     duration |-> 0, called |-> FALSE, out |-> NoProgress]

\* A caller holds a line and a total duration.
PickLine ==
    /\ \E line \in ParseLines, duration \in ParseDurations :
         pp' = [line |-> line, duration |-> duration,
                called |-> FALSE, out |-> NoProgress]
    /\ UNCHANGED <<CANCELLED, cv, mg, dl, fc>>

\* utils.rs:16: parse_progress is called on them.
CallParseProgress ==
    /\ ~pp.called
    /\ pp' = [pp EXCEPT !.called = TRUE,
                        !.out = parse_progress(pp.line, pp.duration)]
    /\ UNCHANGED <<CANCELLED, cv, mg, dl, fc>>

\* The final synthetic event of convert_media.
DoneProgress(total) ==
    [some |-> TRUE, percent_num |-> 100, percent_den |-> 1,
     time |-> total, speed |-> "Done", size |-> "Complete"]

\* ----------------------------------------------------------- models.rs

\* Option<T>: None, or Some(v). A None keeps a value of T's type in v, which
\* nothing reads.
Some(x)  == [some |-> TRUE, v |-> x]
NoneNum  == [some |-> FALSE, v |-> 0]
NoneStr  == [some |-> FALSE, v |-> ""]
NoneBool == [some |-> FALSE, v |-> FALSE]

UnwrapOr(opt, default) == IF opt.some THEN opt.v ELSE default

\* f32 and f64 settings are kept in hundredths: One is 1.0.
One == 100

\* FilterSettings with every filter at its neutral value.
DefaultFilterSettings ==
    [brightness |-> 0, contrast |-> One, saturation |-> One, gamma |-> One,
     hue |-> 0, blur |-> 0, sharpen |-> 0,
     vignette |-> FALSE, vignette_strength |-> 0]

\* AudioFilterSettings with every stage off.
DefaultAudioFilterSettings ==
    [normalize |-> FALSE, target_lufs |-> -16 * One,
     eq_enabled |-> FALSE, bass_gain |-> 0, mid_gain |-> 0, treble_gain |-> 0,
     noise_reduction |-> FALSE, noise_reduction_strength |-> 0,
     compressor_enabled |-> FALSE, compressor_threshold |-> -20 * One,
     compressor_ratio |-> 4 * One,
     fade_in_duration |-> 0, fade_out_duration |-> 0]

\* VideoTransformSettings with every transform off.
DefaultVideoTransformSettings ==
    [rotation |-> 0, crop_enabled |-> FALSE,
     crop_top |-> 0, crop_bottom |-> 0, crop_left |-> 0, crop_right |-> 0,
     flip_horizontal |-> FALSE, flip_vertical |-> FALSE,
     deinterlace |-> FALSE, denoise |-> FALSE, denoise_strength |-> 0,
     fade_in_duration |-> 0, fade_out_duration |-> 0]

DefaultTextOverlay ==
    [content |-> "Hi", font_size |-> 24, color |-> "white", x |-> "", y |-> ""]

DefaultImageOverlay ==
    [path |-> "logo.png", x |-> "", y |-> "", opacity |-> One]

NoOverlaySettings ==
    [text  |-> [some |-> FALSE, v |-> DefaultTextOverlay],
     image |-> [some |-> FALSE, v |-> DefaultImageOverlay]]

\* The fields of ConvertOptions that build_filter_chain reads, all unset.
DefaultOptions ==
    [start_time |-> NoneNum, end_time |-> NoneNum,
     width |-> NoneNum, height |-> NoneNum,
     audio_only |-> FALSE,
     subtitle_path |-> NoneStr,
     filters |-> [some |-> FALSE, v |-> DefaultFilterSettings],
     overlays |-> [some |-> FALSE, v |-> NoOverlaySettings],
     audio_volume |-> NoneNum, playback_speed |-> NoneNum,
     export_gif |-> NoneBool, extract_thumbnail |-> NoneBool,
     audio_filters |-> [some |-> FALSE, v |-> DefaultAudioFilterSettings],
     video_transform |-> [some |-> FALSE, v |-> DefaultVideoTransformSettings]]

\* ------------------------------------------- ffmpeg.rs: build_filter_chain

\* One filter of a chain: its name, its numeric and its textual arguments.
Stage(name, nums, strs) == [name |-> name, nums |-> nums, strs |-> strs]

\* One element of the argument list: a literal word; or the value of -vf or
\* -af, a chain of stages joined by ","; or the value of -filter_complex,
\* "[0:v]<chain>[v1];<overlay chain>".
NoOverlayChain == [mix |-> FALSE, opacity |-> 0, x |-> "", y |-> ""]

Word(text) ==
    [kind |-> "word", text |-> text, stages |-> <<>>, overlay |-> NoOverlayChain]
Chain(stages) ==
    [kind |-> "chain", text |-> "", stages |-> stages, overlay |-> NoOverlayChain]
Graph(stages, overlay) ==
    [kind |-> "graph", text |-> "", stages |-> stages, overlay |-> overlay]

When(cond, stage) == IF cond THEN <<stage>> ELSE <<>>

Max(a, b) == IF a >= b THEN a ELSE b
Abs(a) == IF a >= 0 THEN a ELSE -a

\* ffmpeg.rs:112: sub_path.replace("\\", "/").replace(":", "\\:")
EscapeSubtitlePath(path) ==
    CASE path = "C:\\subs\\a.srt" -> "C\\:/subs/a.srt"
      [] path = "subs/a.srt"      -> "subs/a.srt"
      [] OTHER                    -> path

\* ffmpeg.rs:123: content.replace(":", "\\:").replace("'", "'\\''")
EscapeText(content) ==
    CASE content = "Hi"   -> "Hi"
      [] content = "a:b"  -> "a\\:b"
      [] content = "it's" -> "it'\\''s"
      [] content = "volume up" -> "volume up"
      [] OTHER            -> content

GifPalette ==
    "fps=15,scale=480:-1:flags=lanczos,split[s0][s1];[s0]palettegen[p];[s1][p]paletteuse"

\* Mutant of FadeOutStart: the start is not clamped with max(0.0).
FadeOutStartUnclamped(options, total_duration, fade_duration) ==
    LET start == UnwrapOr(options.start_time, 0)
        end == UnwrapOr(options.end_time, total_duration)
    IN  (end - start) - fade_duration

\* ffmpeg.rs:98-101 and 235-238: where a fade-out of fade_duration starts.
FadeOutStart(options, total_duration, fade_duration) ==
    LET start == UnwrapOr(options.start_time, 0)
        end == UnwrapOr(options.end_time, total_duration)
        output_duration == end - start
    IN  Max(output_duration - fade_duration, 0)

\* Mutant of ColorFilters: the eq stage is pushed only when one of its four
\* values differs from its neutral value.
ColorFiltersEqWhenChanged(options) ==
    LET fl == options.filters.v
        changed == fl.brightness # 0 \/ fl.contrast # One
                   \/ fl.saturation # One \/ fl.gamma # One
    IN  When(options.filters.some /\ changed,
             Stage("eq", <<fl.brightness, fl.contrast, fl.saturation, fl.gamma>>,
                   <<>>))
     \o When(options.filters.some /\ fl.hue # 0, Stage("hue", <<fl.hue>>, <<>>))
     \o When(options.filters.some /\ fl.blur > 0,
             Stage("boxblur", <<fl.blur>>, <<>>))
     \o When(options.filters.some /\ fl.sharpen > 0,
             Stage("unsharp", <<5, 5, fl.sharpen>>, <<>>))
     \o When(options.filters.some /\ fl.vignette,
             Stage("vignette", <<(157 * fl.vignette_strength) \div One>>, <<>>))

\* ffmpeg.rs:64-87: the stages of a FilterSettings.
ColorFilters(options) ==
    LET fl == options.filters.v
    IN  When(options.filters.some,
             Stage("eq", <<fl.brightness, fl.contrast, fl.saturation, fl.gamma>>,
                   <<>>))
     \o When(options.filters.some /\ fl.hue # 0, Stage("hue", <<fl.hue>>, <<>>))
     \o When(options.filters.some /\ fl.blur > 0,
             Stage("boxblur", <<fl.blur>>, <<>>))
     \o When(options.filters.some /\ fl.sharpen > 0,
             Stage("unsharp", <<5, 5, fl.sharpen>>, <<>>))
     \o When(options.filters.some /\ fl.vignette,
             Stage("vignette", <<(157 * fl.vignette_strength) \div One>>, <<>>))

\* Mutant of VideoFilters: the flips are pushed before the scale.
VideoFiltersFlipsFirst(options, total_duration) ==
    LET has_tr == options.video_transform.some
        tr == options.video_transform.v
        speed == options.playback_speed
        text == options.overlays.v.text
    IN  \* 1. deinterlace, denoise
        When(has_tr /\ tr.deinterlace, Stage("yadif", <<>>, <<>>))
     \o When(has_tr /\ tr.denoise,
             Stage("hqdn3d", <<(tr.denoise_strength * One) \div 2>>, <<>>))
        \* 2. playback speed
     \o When(speed.some /\ Abs(speed.v - One) > 0,
             Stage("setpts", <<(One * One) \div speed.v>>, <<>>))
        \* 3. rotation
     \o When(has_tr /\ tr.rotation = 90, Stage("transpose", <<1>>, <<>>))
     \o When(has_tr /\ tr.rotation = 180, Stage("transpose", <<2, 2>>, <<>>))
     \o When(has_tr /\ tr.rotation = 270, Stage("transpose", <<2>>, <<>>))
        \* 4. crop
     \o When(has_tr /\ tr.crop_enabled,
             Stage("crop", <<tr.crop_left, tr.crop_right, tr.crop_top,
                             tr.crop_bottom, tr.crop_left, tr.crop_top>>, <<>>))
        \* the flips, moved up with the other transforms
     \o When(has_tr /\ tr.flip_horizontal, Stage("hflip", <<>>, <<>>))
     \o When(has_tr /\ tr.flip_vertical, Stage("vflip", <<>>, <<>>))
        \* 5. scale
     \o When(options.width.some \/ options.height.some,
             Stage("scale", <<UnwrapOr(options.width, -1),
                              UnwrapOr(options.height, -1)>>, <<>>))
        \* 7. color, hue, blur, sharpen, vignette
     \o ColorFilters(options)
        \* 8. fades
     \o When(has_tr /\ tr.fade_in_duration > 0,
             Stage("fade", <<UnwrapOr(options.start_time, 0),
                             tr.fade_in_duration>>, <<"in">>))
     \o When(has_tr /\ tr.fade_out_duration > 0,
             Stage("fade", <<FadeOutStart(options, total_duration,
                                          tr.fade_out_duration),
                             tr.fade_out_duration>>, <<"out">>))
        \* 9. subtitles, text overlay
     \o When(options.subtitle_path.some,
             Stage("subtitles", <<>>,
                   <<EscapeSubtitlePath(options.subtitle_path.v)>>))
     \o When(options.overlays.some /\ text.some,
             Stage("drawtext", <<text.v.font_size>>,
                   <<EscapeText(text.v.content), text.v.color,
                     IF text.v.x = "" THEN "10" ELSE text.v.x,
                     IF text.v.y = "" THEN "10" ELSE text.v.y>>))
        \* GIF export
     \o When(UnwrapOr(options.export_gif, FALSE), Stage(GifPalette, <<>>, <<>>))

\* ffmpeg.rs:6-135: vf_filters.
VideoFilters(options, total_duration) ==
    LET has_tr == options.video_transform.some
        tr == options.video_transform.v
        speed == options.playback_speed
        text == options.overlays.v.text
    IN  \* 1. deinterlace, denoise
        When(has_tr /\ tr.deinterlace, Stage("yadif", <<>>, <<>>))
     \o When(has_tr /\ tr.denoise,
             Stage("hqdn3d", <<(tr.denoise_strength * One) \div 2>>, <<>>))
        \* 2. playback speed
     \o When(speed.some /\ Abs(speed.v - One) > 0,
             Stage("setpts", <<(One * One) \div speed.v>>, <<>>))
        \* 3. rotation
     \o When(has_tr /\ tr.rotation = 90, Stage("transpose", <<1>>, <<>>))
     \o When(has_tr /\ tr.rotation = 180, Stage("transpose", <<2, 2>>, <<>>))
     \o When(has_tr /\ tr.rotation = 270, Stage("transpose", <<2>>, <<>>))
        \* 4. crop
     \o When(has_tr /\ tr.crop_enabled,
             Stage("crop", <<tr.crop_left, tr.crop_right, tr.crop_top,
                             tr.crop_bottom, tr.crop_left, tr.crop_top>>, <<>>))
        \* 5. scale
     \o When(options.width.some \/ options.height.some,
             Stage("scale", <<UnwrapOr(options.width, -1),
                              UnwrapOr(options.height, -1)>>, <<>>))
        \* 6. flips
     \o When(has_tr /\ tr.flip_horizontal, Stage("hflip", <<>>, <<>>))
     \o When(has_tr /\ tr.flip_vertical, Stage("vflip", <<>>, <<>>))
        \* 7. color, hue, blur, sharpen, vignette
     \o ColorFilters(options)
        \* 8. fades
     \o When(has_tr /\ tr.fade_in_duration > 0,
             Stage("fade", <<UnwrapOr(options.start_time, 0),
                             tr.fade_in_duration>>, <<"in">>))
     \o When(has_tr /\ tr.fade_out_duration > 0,
             Stage("fade", <<FadeOutStart(options, total_duration,
                                          tr.fade_out_duration),
                             tr.fade_out_duration>>, <<"out">>))
        \* 9. subtitles, text overlay
     \o When(options.subtitle_path.some,
             Stage("subtitles", <<>>,
                   <<EscapeSubtitlePath(options.subtitle_path.v)>>))
     \o When(options.overlays.some /\ text.some,
             Stage("drawtext", <<text.v.font_size>>,
                   <<EscapeText(text.v.content), text.v.color,
                     IF text.v.x = "" THEN "10" ELSE text.v.x,
                     IF text.v.y = "" THEN "10" ELSE text.v.y>>))
        \* GIF export
     \o When(UnwrapOr(options.export_gif, FALSE), Stage(GifPalette, <<>>, <<>>))

\* ffmpeg.rs:138-140
HasImageOverlay(options) == options.overlays.some /\ options.overlays.v.image.some

\* ffmpeg.rs:145-158: the value of -filter_complex.
FilterComplex(options, vf_filters) ==
    LET img == options.overlays.v.image.v
        vf_str == IF vf_filters = <<>>
                  THEN <<Stage("null", <<>>, <<>>)>>
                  ELSE vf_filters
        mix == Abs(img.opacity - One) > 0
    IN  Graph(vf_str,
              [mix |-> mix,
               opacity |-> IF mix THEN img.opacity ELSE 0,
               x |-> IF img.x = "" THEN "0" ELSE img.x,
               y |-> IF img.y = "" THEN "0" ELSE img.y])

\* Mutant of VideoArgs: the two branches are tested in the other order.
VideoArgsChainFirst(options, vf_filters) ==
    IF vf_filters # <<>>
    THEN [args |-> <<Word("-vf"), Chain(vf_filters)>>, uses_complex |-> FALSE]
    ELSE IF HasImageOverlay(options)
         THEN [args |-> <<Word("-filter_complex"),
                          FilterComplex(options, vf_filters),
                          Word("-map"), Word("[outv]")>>,
               uses_complex |-> TRUE]
         ELSE [args |-> <<>>, uses_complex |-> FALSE]

\* ffmpeg.rs:142-173: the video arguments and uses_complex.
VideoArgs(options, vf_filters) ==
    IF HasImageOverlay(options)
    THEN [args |-> <<Word("-filter_complex"),
                     FilterComplex(options, vf_filters),
                     Word("-map"), Word("[outv]")>>,
          uses_complex |-> TRUE]
    ELSE IF vf_filters # <<>>
         THEN [args |-> <<Word("-vf"), Chain(vf_filters)>>,
               uses_complex |-> FALSE]
         ELSE [args |-> <<>>, uses_complex |-> FALSE]

\* Mutant of AudioFilters: the tempo stage is pushed for every playback
\* speed given, 1.0 included.
AudioFiltersTempoUngated(options, total_duration) ==
    LET has_af == options.audio_filters.some
        af == options.audio_filters.v
        speed == options.playback_speed
        vol == options.audio_volume
    IN  When(has_af /\ af.noise_reduction,
             Stage("afftdn",
                   <<Max((af.noise_reduction_strength * 30) \div One, 10)>>, <<>>))
     \o When(speed.some, Stage("atempo", <<speed.v>>, <<>>))
     \o When(vol.some /\ Abs(vol.v - One) > 0, Stage("volume", <<vol.v>>, <<>>))
     \o (IF has_af /\ af.eq_enabled
         THEN <<Stage("equalizer", <<100, 200, af.bass_gain>>, <<>>),
                Stage("equalizer", <<1000, 500, af.mid_gain>>, <<>>),
                Stage("equalizer", <<10000, 2000, af.treble_gain>>, <<>>)>>
         ELSE <<>>)
     \o When(has_af /\ af.compressor_enabled,
             Stage("acompressor",
                   <<af.compressor_threshold, af.compressor_ratio, 5, 50>>, <<>>))
     \o When(has_af /\ af.normalize, Stage("loudnorm", <<af.target_lufs>>, <<>>))
     \o When(has_af /\ af.fade_in_duration > 0,
             Stage("afade", <<UnwrapOr(options.start_time, 0),
                              af.fade_in_duration>>, <<"in">>))
     \o When(has_af /\ af.fade_out_duration > 0,
             Stage("afade", <<FadeOutStart(options, total_duration,
                                           af.fade_out_duration),
                              af.fade_out_duration>>, <<"out">>))

\* ffmpeg.rs:176-245: af_filters.
AudioFilters(options, total_duration) ==
    LET has_af == options.audio_filters.some
        af == options.audio_filters.v
        speed == options.playback_speed
        vol == options.audio_volume
    IN  When(has_af /\ af.noise_reduction,
             Stage("afftdn",
                   <<Max((af.noise_reduction_strength * 30) \div One, 10)>>, <<>>))
     \o When(speed.some /\ Abs(speed.v - One) > 0,
             Stage("atempo", <<speed.v>>, <<>>))
     \o When(vol.some /\ Abs(vol.v - One) > 0, Stage("volume", <<vol.v>>, <<>>))
     \o (IF has_af /\ af.eq_enabled
         THEN <<Stage("equalizer", <<100, 200, af.bass_gain>>, <<>>),
                Stage("equalizer", <<1000, 500, af.mid_gain>>, <<>>),
                Stage("equalizer", <<10000, 2000, af.treble_gain>>, <<>>)>>
         ELSE <<>>)
     \o When(has_af /\ af.compressor_enabled,
             Stage("acompressor",
                   <<af.compressor_threshold, af.compressor_ratio, 5, 50>>, <<>>))
     \o When(has_af /\ af.normalize, Stage("loudnorm", <<af.target_lufs>>, <<>>))
     \o When(has_af /\ af.fade_in_duration > 0,
             Stage("afade", <<UnwrapOr(options.start_time, 0),
                              af.fade_in_duration>>, <<"in">>))
     \o When(has_af /\ af.fade_out_duration > 0,
             Stage("afade", <<FadeOutStart(options, total_duration,
                                           af.fade_out_duration),
                              af.fade_out_duration>>, <<"out">>))

\* Mutant of AudioArgs: the audio stream is mapped whenever the complex graph
\* is used, audio-only or not.
AudioArgsAlwaysMapped(options, af_filters) ==
    (IF af_filters # <<>> THEN <<Word("-af"), Chain(af_filters)>> ELSE <<>>)
    \o (IF HasImageOverlay(options)
        THEN <<Word("-map"), Word("0:a")>> ELSE <<>>)
    \o (IF UnwrapOr(options.extract_thumbnail, FALSE)
        THEN <<Word("-vframes"), Word("1")>> ELSE <<>>)

\* ffmpeg.rs:247-262: the audio, mapping and thumbnail arguments.
AudioArgs(options, af_filters) ==
    (IF af_filters # <<>> THEN <<Word("-af"), Chain(af_filters)>> ELSE <<>>)
    \o (IF HasImageOverlay(options) /\ ~options.audio_only
        THEN <<Word("-map"), Word("0:a")>> ELSE <<>>)
    \o (IF UnwrapOr(options.extract_thumbnail, FALSE)
        THEN <<Word("-vframes"), Word("1")>> ELSE <<>>)

\* ffmpeg.rs:4-265
build_filter_chain(options, total_duration) ==
    LET video == VideoArgs(options, VideoFilters(options, total_duration))
    IN  [args |-> video.args
                  \o AudioArgs(options, AudioFilters(options, total_duration)),
         uses_complex |-> video.uses_complex]

\* ------------------------------------- the settings the caller may send

\* The settings a caller changes, one at a time, from DefaultOptions.
WithTransform(o, video_transform) ==
    [o EXCEPT !.video_transform = Some(video_transform)]
WithFilters(o, filters) ==
    [o EXCEPT !.filters = Some(filters)]
WithAudioFilters(o, audio_filters) ==
    [o EXCEPT !.audio_filters = Some(audio_filters)]
WithOverlays(o, overlays) ==
    [o EXCEPT !.overlays = Some(overlays)]

SettingNames ==
    { "video_transform", "deinterlace", "denoise", "rotate90", "rotate180",
      "rotate270", "crop", "hflip", "vflip", "video_fade_in",
      "video_fade_out", "video_fade_out_long",
      "speed_1", "speed_2", "speed_half", "width", "height",
      "filters", "brightness", "hue", "blur", "sharpen", "vignette",
      "start_time", "end_time", "end_before_start",
      "subtitles", "subtitles_windows", "text", "text_quoted", "text_volume", "text_at",
      "image", "image_half_opaque", "image_at",
      "gif", "gif_off", "thumbnail", "audio_only",
      "audio_filters", "normalize", "equalizer", "noise_reduction",
      "compressor", "audio_fade_in", "audio_fade_out",
      "volume_1", "volume_up" }

Apply(o, name) ==
    CASE name = "video_transform" ->
           WithTransform(o, o.video_transform.v)
      [] name = "deinterlace" ->
           WithTransform(o, [o.video_transform.v EXCEPT !.deinterlace = TRUE])
      [] name = "denoise" ->
           WithTransform(o, [o.video_transform.v EXCEPT !.denoise = TRUE,
                                                 !.denoise_strength = 4])
      [] name = "rotate90" ->
           WithTransform(o, [o.video_transform.v EXCEPT !.rotation = 90])
      [] name = "rotate180" ->
           WithTransform(o, [o.video_transform.v EXCEPT !.rotation = 180])
      [] name = "rotate270" ->
           WithTransform(o, [o.video_transform.v EXCEPT !.rotation = 270])
      [] name = "crop" ->
           WithTransform(o, [o.video_transform.v EXCEPT !.crop_enabled = TRUE,
                                                 !.crop_top = 10, !.crop_bottom = 20,
                                                 !.crop_left = 30, !.crop_right = 40])
      [] name = "hflip" ->
           WithTransform(o, [o.video_transform.v EXCEPT !.flip_horizontal = TRUE])
      [] name = "vflip" ->
           WithTransform(o, [o.video_transform.v EXCEPT !.flip_vertical = TRUE])
      [] name = "video_fade_in" ->
           WithTransform(o, [o.video_transform.v EXCEPT !.fade_in_duration = 2 * One])
      [] name = "video_fade_out" ->
           WithTransform(o, [o.video_transform.v EXCEPT !.fade_out_duration = 3 * One])
      [] name = "video_fade_out_long" ->
           WithTransform(o, [o.video_transform.v EXCEPT !.fade_out_duration = 8 * One])
      [] name = "speed_1"    -> [o EXCEPT !.playback_speed = Some(One)]
      [] name = "speed_2"    -> [o EXCEPT !.playback_speed = Some(2 * One)]
      [] name = "speed_half" -> [o EXCEPT !.playback_speed = Some(One \div 2)]
      [] name = "width"      -> [o EXCEPT !.width = Some(640)]
      [] name = "height"     -> [o EXCEPT !.height = Some(480)]
      [] name = "filters" ->
           WithFilters(o, o.filters.v)
      [] name = "brightness" ->
           WithFilters(o, [o.filters.v EXCEPT !.brightness = One \div 5,
                                              !.contrast = (3 * One) \div 2])
      [] name = "hue" ->
           WithFilters(o, [o.filters.v EXCEPT !.hue = 10 * One])
      [] name = "blur" ->
           WithFilters(o, [o.filters.v EXCEPT !.blur = 2 * One])
      [] name = "sharpen" ->
           WithFilters(o, [o.filters.v EXCEPT !.sharpen = One])
      [] name = "vignette" ->
           WithFilters(o, [o.filters.v EXCEPT !.vignette = TRUE,
                                               !.vignette_strength = One \div 2])
      [] name = "start_time"       -> [o EXCEPT !.start_time = Some(2 * One)]
      [] name = "end_time"         -> [o EXCEPT !.end_time = Some(7 * One)]
      [] name = "end_before_start" -> [o EXCEPT !.end_time = Some(One)]
      [] name = "subtitles" ->
           [o EXCEPT !.subtitle_path = Some("subs/a.srt")]
      [] name = "subtitles_windows" ->
           [o EXCEPT !.subtitle_path = Some("C:\\subs\\a.srt")]
      [] name = "text" ->
           WithOverlays(o, [o.overlays.v EXCEPT !.text = Some(@.v)])
      [] name = "text_quoted" ->
           WithOverlays(o, [o.overlays.v EXCEPT !.text = Some([@.v EXCEPT !.content = "it's"])])
      [] name = "text_volume" ->
           WithOverlays(o,
               [o.overlays.v EXCEPT !.text = Some([@.v EXCEPT !.content = "volume up"])])
      [] name = "text_at" ->
           WithOverlays(o, [o.overlays.v EXCEPT !.text = Some([@.v EXCEPT !.x = "w-tw-10", !.y = "20"])])
      [] name = "image" ->
           WithOverlays(o, [o.overlays.v EXCEPT !.image = Some(@.v)])
      [] name = "image_half_opaque" ->
           WithOverlays(o, [o.overlays.v EXCEPT !.image = Some([@.v EXCEPT !.opacity = One \div 2])])
      [] name = "image_at" ->
           WithOverlays(o, [o.overlays.v EXCEPT !.image = Some([@.v EXCEPT !.x = "W-w", !.y = "5"])])
      [] name = "gif"        -> [o EXCEPT !.export_gif = Some(TRUE)]
      [] name = "gif_off"    -> [o EXCEPT !.export_gif = Some(FALSE)]
      [] name = "thumbnail"  -> [o EXCEPT !.extract_thumbnail = Some(TRUE)]
      [] name = "audio_only" -> [o EXCEPT !.audio_only = TRUE]
      [] name = "audio_filters" ->
           WithAudioFilters(o, o.audio_filters.v)
      [] name = "normalize" ->
           WithAudioFilters(o, [o.audio_filters.v EXCEPT !.normalize = TRUE])
      [] name = "equalizer" ->
           WithAudioFilters(o, [o.audio_filters.v EXCEPT !.eq_enabled = TRUE,
                                                    !.bass_gain = 3 * One])
      [] name = "noise_reduction" ->
           WithAudioFilters(o, [o.audio_filters.v EXCEPT !.noise_reduction = TRUE])
      [] name = "compressor" ->
           WithAudioFilters(o, [o.audio_filters.v EXCEPT !.compressor_enabled = TRUE])
      [] name = "audio_fade_in" ->
           WithAudioFilters(o, [o.audio_filters.v EXCEPT !.fade_in_duration = 2 * One])
      [] name = "audio_fade_out" ->
           WithAudioFilters(o, [o.audio_filters.v EXCEPT !.fade_out_duration = 8 * One])
      [] name = "volume_1"  -> [o EXCEPT !.audio_volume = Some(One)]
      [] name = "volume_up" -> [o EXCEPT !.audio_volume = Some((3 * One) \div 2)]

\* The durations the builder is called with: 0.0 by generate_preview and by a
\* conversion whose probe shows no duration, 20 s otherwise.
TotalDurations == {0, 20 * One}

NoArgs == [args |-> <<>>, uses_complex |-> FALSE]

FilterIdle ==
    [options |-> DefaultOptions, edits |-> 0, total_duration |-> 0,
     built |-> FALSE, out |-> NoArgs, previewed |-> FALSE, preview |-> <<>>]

\* commands.rs:385: the needles of the preview's filter.
AudioFilterNames ==
    {"afade", "atempo", "volume", "equalizer", "acompressor", "loudnorm",
     "afftdn"}

\* Whether a string the caller supplies contains one of the needles.
MentionsAudioFilter(str) == str \in {"volume up"}

\* commands.rs:385: a.contains(needle) for one of the seven needles. A word
\* of the builder contains none; a chain or graph contains one when a stage
\* bears the name or carries a string that mentions it (no needle spans the
\* "," or the brackets between two stages).
ContainsAudioFilter(arg) ==
    \E i \in 1..Len(arg.stages) :
        \/ arg.stages[i].name \in AudioFilterNames
        \/ \E k \in 1..Len(arg.stages[i].strs) :
              MentionsAudioFilter(arg.stages[i].strs[k])

\* commands.rs:385: the predicate of the filter.
PreviewKeeps(arg) ==
    /\ ~ContainsAudioFilter(arg)
    /\ arg # Word("-af")
    /\ arg # Word("-map")
    /\ arg # Word("0:a")

\* commands.rs:383-385: filter_args_video.
PreviewFilterArgs(options) ==
    SelectSeq(build_filter_chain(options, 0).args, PreviewKeeps)

\* The caller changes one setting of the options it is about to send.
SetOption ==
    /\ ~fc.built
    /\ fc.edits < MaxEdits
    /\ \E name \in SettingNames :
         fc' = [fc EXCEPT !.options = Apply(@, name), !.edits = @ + 1]
    /\ UNCHANGED <<jobs, pp>>

\* commands.rs:168 and 383: the builder is called on the options.
BuildFilterChain ==
    /\ ~fc.built
    /\ \E d \in TotalDurations :
         fc' = [fc EXCEPT !.total_duration = d, !.built = TRUE,
                          !.out = build_filter_chain(fc.options, d)]
    /\ UNCHANGED <<jobs, pp>>

\* commands.rs:383-387: generate_preview calls the builder with 0.0 and
\* filters what it returns.
GeneratePreview ==
    /\ ~fc.built
    /\ fc' = [fc EXCEPT !.total_duration = 0, !.built = TRUE,
                        !.out = build_filter_chain(fc.options, 0),
                        !.previewed = TRUE,
                        !.preview = PreviewFilterArgs(fc.options)]
    /\ UNCHANGED <<jobs, pp>>

\* The caller starts over with fresh options.
NewOptions ==
    /\ fc.built
    /\ fc' = FilterIdle
    /\ UNCHANGED <<jobs, pp>>

\* ------------------------------------------- the external tools' behaviour

\* Lines ffmpeg may write to its diagnostic stream: a banner line without a
\* time token, two status lines, and a line that is not valid UTF-8.
BannerLine  == [utf8 |-> TRUE, has_time |-> FALSE, h |-> 0, m |-> 0, s |-> 0,
                speed |-> "", size |-> ""]
StatusLine  == [utf8 |-> TRUE, has_time |-> TRUE, h |-> 0, m |-> 0, s |-> 10,
                speed |-> "1.5x", size |-> "1024kB"]
LateLine    == [utf8 |-> TRUE, has_time |-> TRUE, h |-> 0, m |-> 1, s |-> 0,
                speed |-> "", size |-> ""]
BadUtf8Line == [utf8 |-> FALSE, has_time |-> FALSE, h |-> 0, m |-> 0, s |-> 0,
                speed |-> "", size |-> ""]

DiagLines == {BannerLine, StatusLine, LateLine, BadUtf8Line}

\* No Output yet (the probe has not resolved, or resolved without one).
NoProbeOutput == [success |-> FALSE, stdout |-> NoDuration]

\* What ffprobe hands back when it completes in time: its exit status and the
\* Duration pattern of its standard output.
ProbeOutputs ==
    { [success |-> ok, stdout |-> d] :
        ok \in BOOLEAN,
        d \in {NoDuration, [has |-> TRUE, h |-> 0, m |-> 0, s |-> 20]} }

\* How the probe's future resolves: the 10 s timeout, an io::Error of
\* Command::output, or an Output.
ProbeResults == {"timeout", "launch_error", "output"}

\* ----------------------------------------------- commands.rs: convert_media

ErrProbeTimeout == "ffprobe (probe) timed out"
ErrProbeLaunch  == "Failed to probe"
ErrSpawn        == "Failed to start ffmpeg"
ErrCancelled    == "Cancelled by user"
ErrWait         == "Process error"
ErrFailed       == "FFmpeg conversion failed"

\* No invocation in flight. The fields after result are history: the events
\* emitted on "ffmpeg-progress", the lines next_line returned, every line the
\* child wrote, whether kill was called, the flag's value just before the
\* entry's store and at the return, and which cancel_conversion calls came
\* during the invocation.
ConvertIdle ==
    [pc |-> "Idle", total_duration |-> 0,
     child |-> "none", exit_ok |-> FALSE, stderr_open |-> FALSE,
     pipe |-> <<>>, written |-> 0, stdout_used |-> 0,
     result |-> "",
     events |-> <<>>, lines_read |-> <<>>, stream |-> <<>>,
     kill_called |-> FALSE, flag_at_entry |-> FALSE,
     cancel_since_entry |-> FALSE, cancel_in_probe |-> FALSE,
     cancel_while_running |-> FALSE, flag_at_end |-> FALSE,
     probe |-> "none", probe_output |-> NoProbeOutput]

\* The job has returned to its caller with this result.
ConvertFinish(job, res) ==
    [job EXCEPT !.pc = "Done", !.result = res, !.flag_at_end = CANCELLED]

\* Mutant of ConvertEntry: the entry leaves the flag as it finds it.
ConvertEntryNoReset ==
    /\ cv.pc = "Idle"
    /\ cv' = [ConvertIdle EXCEPT !.pc = "Probing", !.flag_at_entry = CANCELLED]
    /\ UNCHANGED <<CANCELLED, mg, dl, fc, pp>>

\* commands.rs:90-91: the entry stores false, then the probe is started.
ConvertEntry ==
    /\ cv.pc = "Idle"
    /\ CANCELLED' = FALSE
    /\ cv' = [ConvertIdle EXCEPT !.pc = "Probing", !.flag_at_entry = CANCELLED]
    /\ UNCHANGED <<mg, dl, fc, pp>>

\* Mutant of ConvertSpawn: the flag is looked at before the spawn.
ConvertSpawnChecksFlag(job, spawned) ==
    IF CANCELLED
    THEN ConvertFinish(job, ErrCancelled)
    ELSE IF spawned
         THEN [job EXCEPT !.pc = "Running", !.child = "running",
                          !.stderr_open = TRUE]
         ELSE ConvertFinish(job, ErrSpawn)

\* commands.rs:179-187: Command::spawn of ffmpeg with both pipes.
ConvertSpawn(job, spawned) ==
    IF spawned
    THEN [job EXCEPT !.pc = "Running", !.child = "running", !.stderr_open = TRUE]
    ELSE ConvertFinish(job, ErrSpawn)

\* Mutant of ConvertProbe: the flag is stored false after the probe, not
\* (only) at the entry.
ConvertProbeResets ==
    /\ cv.pc = "Probing"
    /\ \E r \in ProbeResults :
         \/ /\ r = "timeout"
            /\ cv' = ConvertFinish([cv EXCEPT !.probe = r], ErrProbeTimeout)
         \/ /\ r = "launch_error"
            /\ cv' = ConvertFinish([cv EXCEPT !.probe = r], ErrProbeLaunch)
         \/ /\ r = "output"
            /\ \E out \in ProbeOutputs, spawned \in BOOLEAN :
                 cv' = ConvertSpawn(
                         [cv EXCEPT !.probe = r, !.probe_output = out,
                                    !.total_duration = parse_duration(out.stdout)],
                         spawned)
    /\ CANCELLED' = FALSE
    /\ UNCHANGED <<mg, dl, fc, pp>>

\* Mutant of ConvertProbe: a probe that exits with a non-zero status fails
\* the job.
ConvertProbeChecksStatus ==
    /\ cv.pc = "Probing"
    /\ \E r \in ProbeResults :
         \/ /\ r = "timeout"
            /\ cv' = ConvertFinish([cv EXCEPT !.probe = r], ErrProbeTimeout)
         \/ /\ r = "launch_error"
            /\ cv' = ConvertFinish([cv EXCEPT !.probe = r], ErrProbeLaunch)
         \/ /\ r = "output"
            /\ \E out \in ProbeOutputs, spawned \in BOOLEAN :
                 LET probed == [cv EXCEPT
                                  !.probe = r, !.probe_output = out,
                                  !.total_duration = parse_duration(out.stdout)]
                 IN  cv' = IF out.success
                           THEN ConvertSpawn(probed, spawned)
                           ELSE ConvertFinish(probed, ErrProbeLaunch)
    /\ UNCHANGED <<CANCELLED, mg, dl, fc, pp>>

\* commands.rs:94-187: the probe resolves; on an Output the duration is
\* parsed, the arguments are built (no await in between) and ffmpeg spawned.
ConvertProbe ==
    /\ cv.pc = "Probing"
    /\ \E r \in ProbeResults :
         \/ /\ r = "timeout"
            /\ cv' = ConvertFinish([cv EXCEPT !.probe = r], ErrProbeTimeout)
         \/ /\ r = "launch_error"
            /\ cv' = ConvertFinish([cv EXCEPT !.probe = r], ErrProbeLaunch)
         \/ /\ r = "output"
            /\ \E out \in ProbeOutputs, spawned \in BOOLEAN :
                 cv' = ConvertSpawn(
                         [cv EXCEPT !.probe = r, !.probe_output = out,
                                    !.total_duration = parse_duration(out.stdout)],
                         spawned)
    /\ UNCHANGED <<CANCELLED, mg, dl, fc, pp>>

\* The ffmpeg child writes one more diagnostic line.
FfmpegWrite ==
    /\ cv.child = "running"
    /\ cv.stderr_open
    /\ cv.written < MaxLines
    /\ \E l \in DiagLines :
         cv' = [cv EXCEPT !.pipe = Append(@, l), !.written = @ + 1,
                          !.stream = Append(@, l)]
    /\ UNCHANGED <<CANCELLED, mg, dl, fc, pp>>

\* The ffmpeg child closes its diagnostic stream and keeps running.
FfmpegCloseStderr ==
    /\ cv.child = "running"
    /\ cv.stderr_open
    /\ cv' = [cv EXCEPT !.stderr_open = FALSE]
    /\ UNCHANGED <<CANCELLED, mg, dl, fc, pp>>

\* The ffmpeg child exits, with status 0 or not.
FfmpegExit ==
    /\ cv.child = "running"
    /\ \E ok \in BOOLEAN :
         cv' = [cv EXCEPT !.child = "exited", !.exit_ok = ok,
                          !.stderr_open = FALSE]
    /\ UNCHANGED <<CANCELLED, mg, dl, fc, pp>>

\* The ffmpeg child writes one more block of "-progress pipe:1" output to
\* its standard output (commands.rs:171-173), a pipe (commands.rs:181) that
\* convert_media never reads: the block stays in the pipe.
FfmpegWriteProgress ==
    /\ cv.child = "running"
    /\ cv.stdout_used < StdoutCapacity
    /\ cv' = [cv EXCEPT !.stdout_used = @ + 1]
    /\ UNCHANGED <<CANCELLED, mg, dl, fc, pp>>

\* The ffmpeg child writes a progress block to a full pipe: the write does
\* not return while nobody reads, and the child neither writes nor exits.
FfmpegBlock ==
    /\ cv.child = "running"
    /\ cv.stdout_used = StdoutCapacity
    /\ cv' = [cv EXCEPT !.child = "blocked"]
    /\ UNCHANGED <<CANCELLED, mg, dl, fc, pp>>

\* child.kill(): SIGKILL to a live child; no effect on one that exited.
Kill(job) ==
    [job EXCEPT !.kill_called = TRUE,
                !.child = IF @ \in {"running", "blocked"} THEN "killed" ELSE @,
                !.stderr_open = FALSE]

\* Mutant of ConvertLine: the line is processed first and the flag read after.
ConvertLineChecksAfter(job, line, cancelled) ==
    IF ~line.utf8
    THEN [job EXCEPT !.pc = "Waiting", !.pipe = Tail(@)]
    ELSE LET progress == parse_progress(line, job.total_duration)
             got == [job EXCEPT !.pipe = Tail(@),
                                !.lines_read = Append(@, line),
                                !.events = IF progress.some
                                           THEN Append(@, progress) ELSE @]
         IN  IF cancelled
             THEN ConvertFinish(Kill(got), ErrCancelled)
             ELSE got

\* commands.rs:189-197: one turn of the loop on a line the reader returns.
\* A line that is not UTF-8 makes next_line return Err, which ends the loop.
ConvertLine(job, line, cancelled) ==
    IF ~line.utf8
    THEN [job EXCEPT !.pc = "Waiting", !.pipe = Tail(@)]
    ELSE LET got == [job EXCEPT !.pipe = Tail(@),
                                !.lines_read = Append(@, line)]
             progress == parse_progress(line, job.total_duration)
         IN  IF cancelled
             THEN ConvertFinish(Kill(got), ErrCancelled)
             ELSE IF progress.some
                  THEN [got EXCEPT !.events = Append(@, progress)]
                  ELSE got

ConvertNextLine ==
    /\ cv.pc = "Running"
    /\ cv.pipe # <<>>
    /\ cv' = ConvertLine(cv, Head(cv.pipe), CANCELLED)
    /\ UNCHANGED <<CANCELLED, mg, dl, fc, pp>>

\* commands.rs:189: next_line returns Ok(None) at the end of the stream.
ConvertEndOfStream ==
    /\ cv.pc = "Running"
    /\ cv.pipe = <<>>
    /\ ~cv.stderr_open
    /\ cv' = [cv EXCEPT !.pc = "Waiting"]
    /\ UNCHANGED <<CANCELLED, mg, dl, fc, pp>>

\* Mutant of ConvertAfterWait: a non-zero exit status is reported as a
\* cancellation.
ConvertAfterWaitCancelOnFail(job, wait_ok) ==
    IF ~wait_ok
    THEN ConvertFinish(job, ErrWait)
    ELSE IF ~job.exit_ok
         THEN ConvertFinish(job, ErrCancelled)
         ELSE ConvertFinish(
                [job EXCEPT !.events = Append(@, DoneProgress(job.total_duration))],
                "Ok")

\* Mutant of ConvertAfterWait: the final event is emitted before the exit
\* status is looked at.
ConvertAfterWaitEmitsFirst(job, wait_ok) ==
    IF ~wait_ok
    THEN ConvertFinish(job, ErrWait)
    ELSE LET sent == [job EXCEPT
                        !.events = Append(@, DoneProgress(job.total_duration))]
         IN  IF ~job.exit_ok
             THEN ConvertFinish(sent, ErrFailed)
             ELSE ConvertFinish(sent, "Ok")

\* commands.rs:199-215: after child.wait().
ConvertAfterWait(job, wait_ok) ==
    IF ~wait_ok
    THEN ConvertFinish(job, ErrWait)
    ELSE IF ~job.exit_ok
         THEN ConvertFinish(job, ErrFailed)
         ELSE ConvertFinish(
                [job EXCEPT !.events = Append(@, DoneProgress(job.total_duration))],
                "Ok")

ConvertWait ==
    /\ cv.pc = "Waiting"
    /\ cv.child = "exited"
    /\ \E wait_ok \in BOOLEAN : cv' = ConvertAfterWait(cv, wait_ok)
    /\ UNCHANGED <<CANCELLED, mg, dl, fc, pp>>

\* The command's future has resolved; the next invocation may come.
ConvertReturn ==
    /\ cv.pc = "Done"
    /\ cv' = ConvertIdle
    /\ UNCHANGED <<CANCELLED, mg, dl, fc, pp>>

\* ------------------------------------------------- commands.rs: merge_media

ErrConcatList == "Failed to create concat list"
ErrMergeSpawn == "Failed to start ffmpeg merge"
ErrMergeWait  == "Process error during merge"
ErrMergeFail  == "FFmpeg merge failed"

\* list_file: the temporary concatenation list exists on disk.
MergeIdle ==
    [pc |-> "Idle", child |-> "none", exit_ok |-> FALSE,
     list_file |-> FALSE, result |-> "",
     events |-> <<>>, list_written |-> FALSE, kill_called |-> FALSE,
     cancel_since_entry |-> FALSE, flag_at_end |-> FALSE]

MergeFinish(job, res) ==
    [job EXCEPT !.pc = "Done", !.result = res, !.flag_at_end = CANCELLED]

\* commands.rs:224-249: everything up to the first await. The flag is reset,
\* the list file written (fs::write may fail) and ffmpeg spawned (may fail).
MergeStart(job, write_ok, spawned) ==
    IF ~write_ok
    THEN MergeFinish(job, ErrConcatList)
    ELSE LET wrote == [job EXCEPT !.list_file = TRUE, !.list_written = TRUE]
         IN  IF ~spawned
             THEN MergeFinish(wrote, ErrMergeSpawn)
             ELSE [wrote EXCEPT !.pc = "Waiting", !.child = "running"]

MergeEntry ==
    /\ mg.pc = "Idle"
    /\ CANCELLED' = FALSE
    /\ \E write_ok \in BOOLEAN, spawned \in BOOLEAN :
         mg' = [MergeStart(MergeIdle, write_ok, spawned)
                  EXCEPT !.flag_at_end = FALSE]
    /\ UNCHANGED <<cv, dl, fc, pp>>

\* The merging ffmpeg child exits, with status 0 or not.
MergeChildExit ==
    /\ mg.child = "running"
    /\ \E ok \in BOOLEAN : mg' = [mg EXCEPT !.child = "exited", !.exit_ok = ok]
    /\ UNCHANGED <<CANCELLED, cv, dl, fc, pp>>

\* Mutant of MergeAfterWait: the flag is read after the wait, and a set flag
\* is reported as a cancellation.
MergeAfterWaitChecksFlag(job, wait_ok) ==
    IF ~wait_ok
    THEN MergeFinish(job, ErrMergeWait)
    ELSE LET removed == [job EXCEPT !.list_file = FALSE]
         IN  IF CANCELLED
             THEN MergeFinish(removed, ErrCancelled)
             ELSE IF ~job.exit_ok
                  THEN MergeFinish(removed, ErrMergeFail)
                  ELSE MergeFinish(
                         [removed EXCEPT !.events = Append(@, DoneProgress(0))],
                         "Ok")

\* commands.rs:251-265: after child.wait(). The ? on its error returns
\* before remove_file; otherwise the list file is removed, then the status
\* decides.
MergeAfterWait(job, wait_ok) ==
    IF ~wait_ok
    THEN MergeFinish(job, ErrMergeWait)
    ELSE LET removed == [job EXCEPT !.list_file = FALSE]
         IN  IF ~job.exit_ok
             THEN MergeFinish(removed, ErrMergeFail)
             ELSE MergeFinish(
                    [removed EXCEPT !.events = Append(@, DoneProgress(0))],
                    "Ok")

MergeWait ==
    /\ mg.pc = "Waiting"
    /\ mg.child = "exited"
    /\ \E wait_ok \in BOOLEAN : mg' = MergeAfterWait(mg, wait_ok)
    /\ UNCHANGED <<CANCELLED, cv, dl, fc, pp>>

MergeReturn ==
    /\ mg.pc = "Done"
    /\ mg' = MergeIdle
    /\ UNCHANGED <<CANCELLED, cv, dl, fc, pp>>

\* ---------------------------------------------- commands.rs: download_video

ErrNoYtdlp     == "yt-dlp not found. Please install yt-dlp."
ErrYtdlpSpawn  == "Failed to start yt-dlp"
ErrYtdlpWait   == "yt-dlp process error"
ErrDownload    == "Download failed"
GenericDone    == "Download complete (check output folder)"

\* A line of yt-dlp's standard output, by what the loop tests and extracts:
\* tag = its bracketed prefix; percent = the number the regex (\d+\.?\d*)%
\* captures, -1 when it does not match; dest, already, merging = the path the
\* marker's split expression yields, "" when the marker is absent.
YtLine(tag, percent, dest, already, merging) ==
    [utf8 |-> TRUE, tag |-> tag, percent |-> percent,
     dest |-> dest, already |-> already, merging |-> merging]

YtInfoLine    == YtLine("[youtube]", -1, "", "", "")
YtDestLine    == YtLine("[download]", -1, "a.f137.mp4", "", "")
YtPercentLine == YtLine("[download]", 45, "", "", "")
\* "[download] Destination: 200% real.mp4": the regex finds the title's 200%.
YtOverLine    == YtLine("[download]", 200, "200% real.mp4", "", "")
YtAlreadyLine == YtLine("[download]", -1, "", "b.mp4", "")
YtMergerLine  == YtLine("[Merger]", -1, "", "", "a.mkv")
YtBadUtf8Line == [YtInfoLine EXCEPT !.utf8 = FALSE]

YtLines == {YtInfoLine, YtDestLine, YtPercentLine, YtOverLine, YtAlreadyLine,
            YtMergerLine, YtBadUtf8Line}

DownloadIdle ==
    [pc |-> "Idle", child |-> "none", exit_ok |-> FALSE, stdout_open |-> FALSE,
     pipe |-> <<>>, written |-> 0, last_filename |-> "",
     result |-> "", returned |-> "",
     events |-> <<>>, lines_read |-> <<>>, kill_called |-> FALSE,
     cancel_since_entry |-> FALSE, flag_at_end |-> FALSE]

DownloadFinish(job, res, value) ==
    [job EXCEPT !.pc = "Done", !.result = res, !.returned = value,
                !.flag_at_end = CANCELLED]

\* commands.rs:282-290: the entry stores false, then yt-dlp --version runs.
DownloadEntry ==
    /\ dl.pc = "Idle"
    /\ CANCELLED' = FALSE
    /\ dl' = [DownloadIdle EXCEPT !.pc = "Checking"]
    /\ UNCHANGED <<cv, mg, fc, pp>>

\* commands.rs:286-303: the version check resolves, then yt-dlp is spawned.
DownloadSpawn(job, found, spawned) ==
    IF ~found
    THEN DownloadFinish(job, ErrNoYtdlp, "")
    ELSE IF ~spawned
         THEN DownloadFinish(job, ErrYtdlpSpawn, "")
         ELSE [job EXCEPT !.pc = "Running", !.child = "running",
                          !.stdout_open = TRUE]

DownloadCheck ==
    /\ dl.pc = "Checking"
    /\ \E found \in BOOLEAN, spawned \in BOOLEAN :
         dl' = DownloadSpawn(dl, found, spawned)
    /\ UNCHANGED <<CANCELLED, cv, mg, fc, pp>>

YtdlpWrite ==
    /\ dl.child = "running"
    /\ dl.stdout_open
    /\ dl.written < MaxLines
    /\ \E l \in YtLines :
         dl' = [dl EXCEPT !.pipe = Append(@, l), !.written = @ + 1]
    /\ UNCHANGED <<CANCELLED, cv, mg, fc, pp>>

YtdlpExit ==
    /\ dl.child = "running"
    /\ \E ok \in BOOLEAN :
         dl' = [dl EXCEPT !.child = "exited", !.exit_ok = ok,
                          !.stdout_open = FALSE]
    /\ UNCHANGED <<CANCELLED, cv, mg, fc, pp>>

\* commands.rs:312-343: what one line does to last_filename. The three
\* markers are looked for only in a line that starts with "[download]".
NextFilename(last, line) ==
    IF line.tag # "[download]"
    THEN last
    ELSE LET first == IF line.dest # "" THEN line.dest
                      ELSE IF line.already # "" THEN line.already
                      ELSE last
         IN  IF line.merging # "" THEN line.merging ELSE first

\* commands.rs:312-323: the download-progress event of one line, if any.
DownloadProgress(line) ==
    IF line.tag = "[download]" /\ line.percent >= 0
    THEN [some |-> TRUE, percent_num |-> line.percent, percent_den |-> 1,
          time |-> 0, speed |-> "", size |-> ""]
    ELSE NoProgress

\* commands.rs:306-344: one turn of the loop on a line the reader returns.
DownloadLine(job, line, cancelled) ==
    IF ~line.utf8
    THEN [job EXCEPT !.pc = "Waiting", !.pipe = Tail(@)]
    ELSE LET got == [job EXCEPT !.pipe = Tail(@),
                                !.lines_read = Append(@, line)]
             progress == DownloadProgress(line)
         IN  IF cancelled
             THEN DownloadFinish(
                    [got EXCEPT !.kill_called = TRUE,
                                !.child = IF @ = "running" THEN "killed" ELSE @,
                                !.stdout_open = FALSE],
                    ErrCancelled, "")
             ELSE [got EXCEPT
                     !.events = IF progress.some THEN Append(@, progress) ELSE @,
                     !.last_filename = NextFilename(@, line)]

DownloadNextLine ==
    /\ dl.pc = "Running"
    /\ dl.pipe # <<>>
    /\ dl' = DownloadLine(dl, Head(dl.pipe), CANCELLED)
    /\ UNCHANGED <<CANCELLED, cv, mg, fc, pp>>

DownloadEndOfStream ==
    /\ dl.pc = "Running"
    /\ dl.pipe = <<>>
    /\ ~dl.stdout_open
    /\ dl' = [dl EXCEPT !.pc = "Waiting"]
    /\ UNCHANGED <<CANCELLED, cv, mg, fc, pp>>

\* commands.rs:346-357: after child.wait().
DownloadAfterWait(job, wait_ok) ==
    IF ~wait_ok
    THEN DownloadFinish(job, ErrYtdlpWait, "")
    ELSE IF ~job.exit_ok
         THEN DownloadFinish(job, ErrDownload, "")
         ELSE IF job.last_filename = ""
              THEN DownloadFinish(job, "Ok", GenericDone)
              ELSE DownloadFinish(job, "Ok", job.last_filename)

DownloadWait ==
    /\ dl.pc = "Waiting"
    /\ dl.child = "exited"
    /\ \E wait_ok \in BOOLEAN : dl' = DownloadAfterWait(dl, wait_ok)
    /\ UNCHANGED <<CANCELLED, cv, mg, fc, pp>>

DownloadReturn ==
    /\ dl.pc = "Done"
    /\ dl' = DownloadIdle
    /\ UNCHANGED <<CANCELLED, cv, mg, fc, pp>>

\* ------------------------------------------ commands.rs: cancel_conversion

InFlight(job) == job.pc \notin {"Idle", "Done"}

\* commands.rs:218-221: the store; callable at any time. The other
\* assignments record, for each invocation, that the call came during it.
cancel_conversion ==
    /\ CANCELLED' = TRUE
    /\ cv' = [cv EXCEPT
                !.cancel_since_entry = @ \/ InFlight(cv),
                !.cancel_in_probe = @ \/ cv.pc = "Probing",
                !.cancel_while_running =
                    @ \/ (cv.pc = "Running" /\ cv.child = "running")]
    /\ mg' = [mg EXCEPT !.cancel_since_entry = @ \/ InFlight(mg)]
    /\ dl' = [dl EXCEPT !.cancel_since_entry = @ \/ InFlight(dl)]
    /\ UNCHANGED <<fc, pp>>

\* ------------------------------------------------------- the specification

Init ==
    /\ CANCELLED = FALSE
    /\ cv = ConvertIdle
    /\ mg = MergeIdle
    /\ dl = DownloadIdle
    /\ fc = FilterIdle
    /\ pp = ParseIdle

\* The design's session rule: one job at a time, a command is entered only
\* when no other invocation sharing the flag is in flight. cancel_conversion
\* is not bound by it.
OneAtATime == cv.pc = "Idle" /\ mg.pc = "Idle" /\ dl.pc = "Idle"

StartConvert  == OneAtATime /\ ConvertEntry
StartMerge    == OneAtATime /\ MergeEntry
StartDownload == OneAtATime /\ DownloadEntry

Next ==
    \/ StartConvert \/ ConvertProbe \/ ConvertNextLine \/ ConvertEndOfStream
    \/ ConvertWait \/ ConvertReturn
    \/ FfmpegWrite \/ FfmpegCloseStderr \/ FfmpegExit
    \/ FfmpegWriteProgress \/ FfmpegBlock
    \/ StartMerge \/ MergeChildExit \/ MergeWait \/ MergeReturn
    \/ StartDownload \/ DownloadCheck \/ DownloadNextLine
    \/ DownloadEndOfStream \/ DownloadWait \/ DownloadReturn
    \/ YtdlpWrite \/ YtdlpExit
    \/ cancel_conversion

\* The commands and their children, on fixed options.
Spec == Init /\ [][Next]_vars

\* What the scheduling gives a conversion: the runtime polls the command's
\* future whenever it can take a step (the probe resolves or times out, a
\* line or the end of the stream is there to read, the exited child is there
\* to wait for), and a child that is not stopped in a write exits.
ConvertFairness ==
    /\ WF_vars(ConvertProbe)
    /\ WF_vars(ConvertNextLine)
    /\ WF_vars(ConvertEndOfStream)
    /\ WF_vars(ConvertWait)
    /\ WF_vars(FfmpegExit)

SpecLive == Init /\ [][Next]_vars /\ ConvertFairness

\* Nothing in the code enforces the session rule: the handlers are
\* registered side by side (lib.rs:18-26) and each invocation is a task of
\* its own. Here merge_media is entered whatever the conversion is doing
\* (generate_preview never touches the flag, commands.rs:361-413).
NextOverlap ==
    \/ ConvertEntry \/ ConvertProbe \/ ConvertNextLine \/ ConvertEndOfStream
    \/ ConvertWait \/ ConvertReturn
    \/ FfmpegWrite \/ FfmpegExit
    \/ MergeEntry \/ MergeChildExit \/ MergeWait \/ MergeReturn
    \/ cancel_conversion

SpecOverlap == Init /\ [][NextOverlap]_vars

NextFilter == SetOption \/ BuildFilterChain \/ GeneratePreview \/ NewOptions

\* The filter-chain builder on every ConvertOptions within MaxEdits settings
\* of the default, with no command in flight.
SpecFilter == Init /\ [][NextFilter]_vars

NextParse == PickLine \/ CallParseProgress

\* parse_progress on every line of ParseLines and duration of ParseDurations,
\* with no command in flight.
SpecParse == Init /\ [][NextParse]_vars

\* ------------------------------------------------------------- the claims

\* The job state of the design's state machine
\* Idle -> Probing -> Running -> {Succeeded, Failed, Cancelled}.
JobState(job) ==
    CASE job.pc = "Idle"                   -> "Idle"
      [] job.pc = "Probing"                -> "Probing"
      [] job.pc \in {"Running", "Waiting"} -> "Running"
      [] OTHER -> IF job.result = "Ok" THEN "Succeeded"
                  ELSE IF job.result = ErrCancelled THEN "Cancelled"
                  ELSE "Failed"

\* The final synthetic event is the one whose speed is "Done"; the speed of a
\* parsed event is a token [\d.]+x or "N/A".
IsFinalEvent(e) == e.speed = "Done" /\ e.size = "Complete"

\* The events parse_progress yields for the lines of a stream, in order. A
\* line that is not UTF-8 is no string and is recognized by nothing.
RECURSIVE ParsedEvents(_, _)
ParsedEvents(lines, duration) ==
    IF lines = <<>>
    THEN <<>>
    ELSE LET p == parse_progress(Head(lines), duration)
             rest == ParsedEvents(Tail(lines), duration)
         IN  IF Head(lines).utf8 /\ p.some THEN <<p>> \o rest ELSE rest

\* C1: a cancel_conversion call made while the conversion is in its reading
\* loop and its child is still running makes the job end with "Cancelled by
\* user" and never with success, whatever the child does afterwards. Stated
\* here by its second half: such a job never returns Ok.
C1_CancelWhileRunningNeverSucceeds ==
    (cv.pc = "Done" /\ cv.cancel_while_running) => cv.result # "Ok"

\* C2: whenever convert_media reports a failure while the flag is set, the
\* failure is not the generic "FFmpeg conversion failed".
C2_CancelBeatsNonZeroExit ==
    (cv.pc = "Done" /\ cv.flag_at_end) => cv.result # ErrFailed

\* C3: every cancellable entry point stores false first: while a job is in
\* flight the flag is set only if cancel_conversion was called since the job's
\* entry, and a job ends with "Cancelled by user" only after such a call --
\* never because of a stale request made before it started.
C3_StaleCancelNeverCancels ==
    /\ (InFlight(cv) /\ ~cv.cancel_since_entry) => ~CANCELLED
    /\ (InFlight(mg) /\ ~mg.cancel_since_entry) => ~CANCELLED
    /\ (InFlight(dl) /\ ~dl.cancel_since_entry) => ~CANCELLED
    /\ cv.result = ErrCancelled => cv.cancel_since_entry
    /\ mg.result = ErrCancelled => mg.cancel_since_entry
    /\ dl.result = ErrCancelled => dl.cancel_since_entry

\* C3 witness: a conversion entered with a stale request pending read a line
\* and went on to succeed.
C3_Witness ==
    /\ cv.pc = "Done"
    /\ cv.flag_at_entry
    /\ cv.result = "Ok"
    /\ Len(cv.lines_read) >= 1

\* C4: a cancel_conversion call during the probe leaves the probe as it is
\* and stays pending while the job probes and reads; once a line is read the
\* job has ended, at that first line, with "Cancelled by user", its child
\* spawned and killed, and no progress event emitted. A line is read when
\* next_line returns it: a line that is not UTF-8 comes back as an error and
\* ends the loop with no line read.
C4_CancelInProbeStep ==
    (cv.pc = "Probing" /\ ~CANCELLED /\ CANCELLED')
        => (cv'.pc = "Probing" /\ cv'.cancel_in_probe
            /\ cv'.child = cv.child /\ cv'.result = cv.result
            /\ cv'.total_duration = cv.total_duration)

C4_CancelInProbeState ==
    /\ (cv.cancel_in_probe /\ cv.pc \in {"Probing", "Running"}) => CANCELLED
    /\ (cv.cancel_in_probe /\ Len(cv.lines_read) >= 1)
         => /\ cv.pc = "Done"
            /\ cv.result = ErrCancelled
            /\ Len(cv.lines_read) = 1
            /\ cv.events = <<>>
            /\ cv.kill_called
            /\ cv.child \in {"killed", "exited"}

ReadsLine(job, job2) == Len(job2.lines_read) > Len(job.lines_read)

C5_KillStep(job, job2) ==
    /\ (job.pc = "Running" /\ CANCELLED /\ ReadsLine(job, job2))
         => /\ job2.pc = "Done"
            /\ job2.result = ErrCancelled
            /\ job2.kill_called
            /\ job2.child # "running"
            /\ job2.events = job.events
    /\ (job.pc = "Running" /\ ~CANCELLED /\ ReadsLine(job, job2))
         => job2.pc = "Running"
    /\ (job.result = ErrCancelled /\ job2.pc = "Done")
         => (job2.events = job.events /\ job2.lines_read = job.lines_read)

C5_FlagCheckedBeforeEachLine ==
    [][C5_KillStep(cv, cv') /\ C5_KillStep(dl, dl')]_vars

\* C5 witness: a conversion cancelled at its second line, after one event,
\* with a later line left unread in the pipe.
C5_Witness ==
    /\ cv.result = ErrCancelled
    /\ Len(cv.lines_read) = 2
    /\ Len(cv.events) = 1
    /\ cv.pipe # <<>>

\* C6: a conversion that succeeds has emitted the final event (percent 100,
\* time = total duration) exactly once and last; a conversion that has not
\* succeeded has emitted no such event.
C6_FinalEventOnlyOnSuccess ==
    LET n == Len(cv.events)
    IN  IF cv.pc = "Done" /\ cv.result = "Ok"
        THEN /\ n >= 1
             /\ cv.events[n] = DoneProgress(cv.total_duration)
             /\ cv.events[n].percent_num = 100 * cv.events[n].percent_den
             /\ cv.events[n].time = cv.total_duration
             /\ \A i \in 1..(n - 1) : ~IsFinalEvent(cv.events[i])
        ELSE \A i \in 1..n : ~IsFinalEvent(cv.events[i])

\* C6 witness: a successful conversion of a 20 s input with two parsed events
\* before the final one.
C6_Witness ==
    /\ cv.pc = "Done"
    /\ cv.result = "Ok"
    /\ cv.total_duration = 20
    /\ Len(cv.events) = 3

\* C7: in a successful conversion during which the flag was never set, the
\* events before the final one are, in order, the parse results of the lines
\* of the diagnostic stream that parse_progress recognizes.
C7_EventsAreTheRecognizedLines ==
    (cv.pc = "Done" /\ cv.result = "Ok" /\ ~cv.cancel_since_entry)
        => SubSeq(cv.events, 1, Len(cv.events) - 1)
             = ParsedEvents(cv.stream, cv.total_duration)

\* C8 as claimed: every transition of a conversion job is one of
\* Idle -> Probing, Probing -> Running, Running -> Succeeded,
\* Running -> Failed, Running -> Cancelled.
ClaimedTransitions ==
    { <<"Idle", "Probing">>, <<"Probing", "Running">>,
      <<"Running", "Succeeded">>, <<"Running", "Failed">>,
      <<"Running", "Cancelled">> }

Terminal == {"Succeeded", "Failed", "Cancelled"}

C8_ClaimedStateMachine ==
    [][(JobState(cv) \notin Terminal /\ JobState(cv') # JobState(cv))
         => <<JobState(cv), JobState(cv')>> \in ClaimedTransitions]_vars

\* C8 amended: the transitions are those five and Probing -> Failed (probe
\* timeout, probe launch failure, ffmpeg launch failure); a job has a result
\* exactly in a terminal state and keeps it until the command returns;
\* Succeeded and Cancelled are entered from Running only.
C8_Step ==
    /\ (JobState(cv) \notin Terminal /\ JobState(cv') # JobState(cv))
         => <<JobState(cv), JobState(cv')>>
              \in ClaimedTransitions \cup {<<"Probing", "Failed">>}
    /\ (JobState(cv) = "Probing" /\ JobState(cv') = "Failed")
         => cv'.result \in {ErrProbeTimeout, ErrProbeLaunch, ErrSpawn}
    /\ (JobState(cv) \in Terminal /\ JobState(cv') # JobState(cv))
         => cv' = ConvertIdle
    /\ (cv'.result # "") <=> (JobState(cv') \in Terminal)

C8_StateMachine == [][C8_Step]_vars

\* C8 witness: a job that failed in its probe, never having run ffmpeg.
C8_Witness ==
    /\ JobState(cv) = "Failed"
    /\ cv.result = ErrProbeTimeout
    /\ cv.child = "none"

\* C9: once merge_media has written its list file, the file is gone when
\* merge_media returns, whatever the outcome.
C9_ListFileRemoved ==
    (mg.pc = "Done" /\ mg.list_written) => ~mg.list_file

\* Where a literal word stands in an argument list.
WordAt(args, i, text) ==
    i \in 1..Len(args) /\ args[i].kind = "word" /\ args[i].text = text

HasWord(args, text) == \E i \in 1..Len(args) : WordAt(args, i, text)

\* The argument list holds -filter_complex <graph> -map [outv], in a row.
HasComplexGraph(args) ==
    \E i \in 1..Len(args) :
        /\ WordAt(args, i, "-filter_complex")
        /\ i + 1 <= Len(args) /\ args[i + 1].kind = "graph"
        /\ WordAt(args, i + 2, "-map")
        /\ WordAt(args, i + 3, "[outv]")

\* The caller's options carry an image overlay.
ImagePresent(options) == options.overlays.some /\ options.overlays.v.image.some

\* C10: build_filter_chain emits -filter_complex, followed by -map [outv],
\* if and only if an image overlay is present, and returns true exactly then;
\* without one it emits -vf exactly when the video chain is non-empty, with
\* the chain as its value; -vf and -filter_complex never both appear; with an
\* image overlay and an empty chain the graph's first stage is "null".
C10_ComplexGraphIffImageOverlay ==
    fc.built =>
      LET args == fc.out.args
          image == ImagePresent(fc.options)
          chain == VideoFilters(fc.options, fc.total_duration)
      IN  /\ image <=> HasComplexGraph(args)
          /\ image <=> HasWord(args, "-filter_complex")
          /\ image <=> fc.out.uses_complex
          /\ ~image => (HasWord(args, "-vf") <=> chain # <<>>)
          /\ HasWord(args, "-vf")
               => (WordAt(args, 1, "-vf") /\ args[2] = Chain(chain))
          /\ ~(HasWord(args, "-vf") /\ HasWord(args, "-filter_complex"))
          /\ image => /\ args[2].kind = "graph"
                      /\ args[2].stages
                           = IF chain = <<>> THEN <<Stage("null", <<>>, <<>>)>>
                             ELSE chain

\* C10 witness: an image overlay on an otherwise empty chain, built into a
\* graph whose first stage is "null".
C10_Witness ==
    /\ fc.built
    /\ ImagePresent(fc.options)
    /\ fc.out.uses_complex
    /\ HasComplexGraph(fc.out.args)
    /\ fc.out.args[2].stages[1].name = "null"

\* The stages of the video chain an argument list carries: the value of -vf,
\* or the chain between [0:v] and [v1] of the complex graph, where "null"
\* stands for an empty chain.
VideoChain(args) ==
    IF Len(args) >= 2 /\ args[2].kind \in {"chain", "graph"}
       /\ (WordAt(args, 1, "-vf") \/ WordAt(args, 1, "-filter_complex"))
    THEN IF args[2].stages = <<Stage("null", <<>>, <<>>)>>
         THEN <<>>
         ELSE args[2].stages
    ELSE <<>>

\* The place of a stage in the documented order, 0 for a stage that is none
\* of the eighteen.
StageRank(stage) ==
    CASE stage.name = "yadif"      -> 1
      [] stage.name = "hqdn3d"     -> 2
      [] stage.name = "setpts"     -> 3
      [] stage.name = "transpose"  -> 4
      [] stage.name = "crop"       -> 5
      [] stage.name = "scale"      -> 6
      [] stage.name = "hflip"      -> 7
      [] stage.name = "vflip"      -> 8
      [] stage.name = "eq"         -> 9
      [] stage.name = "hue"        -> 10
      [] stage.name = "boxblur"    -> 11
      [] stage.name = "unsharp"    -> 12
      [] stage.name = "vignette"   -> 13
      [] stage.name = "fade" /\ stage.strs = <<"in">>  -> 14
      [] stage.name = "fade" /\ stage.strs = <<"out">> -> 15
      [] stage.name = "subtitles"  -> 16
      [] stage.name = "drawtext"   -> 17
      [] stage.name = GifPalette   -> 18
      [] OTHER                     -> 0

\* C11: the stages of the video chain are among the eighteen documented ones,
\* each at most once, in the order deinterlace, denoise, setpts, rotation,
\* crop, scale, hflip, vflip, eq, hue, blur, sharpen, vignette, fade-in,
\* fade-out, subtitles, text, GIF palette; and what a call returns is a
\* function of the settings and the total duration alone, whatever edits and
\* calls came before.
C11_FixedStageOrder ==
    fc.built =>
      LET chain == VideoChain(fc.out.args)
      IN  /\ \A i \in 1..Len(chain) : StageRank(chain[i]) \in 1..18
          /\ \A i, j \in 1..Len(chain) :
               i < j => StageRank(chain[i]) < StageRank(chain[j])
          /\ fc.out = build_filter_chain(fc.options, fc.total_duration)

\* C11 witness: a scale, a flip and the GIF pipeline, in that order.
C11_Witness ==
    /\ fc.built
    /\ Len(VideoChain(fc.out.args)) = 3
    /\ VideoChain(fc.out.args)[1].name = "scale"
    /\ VideoChain(fc.out.args)[2].name = "hflip"
    /\ VideoChain(fc.out.args)[3].name = GifPalette

\* The filters an argument list applies to the video stream of the primary
\* input, in order: the chain and, in a complex graph, the overlay filter
\* that takes [v1], the chain's output, and yields [outv].
VideoStagesApplied(args) ==
    VideoChain(args)
    \o (IF Len(args) >= 2 /\ args[2].kind = "graph"
        THEN <<Stage("overlay", <<>>, <<args[2].overlay.x, args[2].overlay.y>>)>>
        ELSE <<>>)

\* C12: whenever GIF export is requested, the palette pipeline is the last
\* stage applied to the video stream, under -vf and in the complex graph.
C12_GifPaletteIsTerminal ==
    (fc.built /\ UnwrapOr(fc.options.export_gif, FALSE))
        => LET applied == VideoStagesApplied(fc.out.args)
           IN  /\ applied # <<>>
               /\ applied[Len(applied)].name = GifPalette

\* The argument list holds -map 0:a, in a row, starting at place i.
AudioMapAt(args, i) == WordAt(args, i, "-map") /\ WordAt(args, i + 1, "0:a")

\* C13: -map 0:a is emitted if and only if an image overlay is present and
\* the job is not audio-only; it is emitted once, after -af and its value
\* (if any) and before -vframes 1 (if any).
C13_AudioMapIffComplexAndNotAudioOnly ==
    fc.built =>
      LET args == fc.out.args
          at == {i \in 1..Len(args) : AudioMapAt(args, i)}
      IN  /\ (at # {}) <=> (ImagePresent(fc.options) /\ ~fc.options.audio_only)
          /\ HasWord(args, "0:a") <=> (at # {})
          /\ \A i \in at, j \in at : i = j
          /\ \A i \in at, j \in 1..Len(args) :
               /\ WordAt(args, j, "-af") => j + 1 < i
               /\ WordAt(args, j, "-vframes") => i + 1 < j

\* C13 witness: an image overlay with an audio chain and a thumbnail: -af,
\* then -map 0:a, then -vframes.
C13_Witness ==
    /\ fc.built
    /\ \E i \in 1..Len(fc.out.args) :
         /\ AudioMapAt(fc.out.args, i)
         /\ WordAt(fc.out.args, i - 2, "-af")
         /\ WordAt(fc.out.args, i + 2, "-vframes")

\* How many stages of a chain bear a name.
StagesNamed(chain, name) ==
    Cardinality({i \in 1..Len(chain) : chain[i].name = name})

\* C14: for every FilterSettings the video chain holds the eq stage exactly
\* once, with the four values, and with no FilterSettings it holds none; the
\* hue, blur, sharpen and vignette stages appear exactly when hue is
\* non-zero, blur > 0, sharpen > 0 and vignette is enabled; an all-default
\* FilterSettings with no other option set yields -vf and one eq stage, and
\* nothing else.
C14_EqAlwaysOthersOnlyWhenSet ==
    fc.built =>
      LET chain == VideoChain(fc.out.args)
          given == fc.options.filters.some
          fl == fc.options.filters.v
      IN  /\ StagesNamed(chain, "eq") = (IF given THEN 1 ELSE 0)
          /\ given => \E i \in 1..Len(chain) :
               chain[i] = Stage("eq", <<fl.brightness, fl.contrast,
                                        fl.saturation, fl.gamma>>, <<>>)
          /\ StagesNamed(chain, "hue")
               = (IF given /\ fl.hue # 0 THEN 1 ELSE 0)
          /\ StagesNamed(chain, "boxblur")
               = (IF given /\ fl.blur > 0 THEN 1 ELSE 0)
          /\ StagesNamed(chain, "unsharp")
               = (IF given /\ fl.sharpen > 0 THEN 1 ELSE 0)
          /\ StagesNamed(chain, "vignette")
               = (IF given /\ fl.vignette THEN 1 ELSE 0)
          /\ fc.options = [DefaultOptions EXCEPT
                             !.filters = Some(DefaultFilterSettings)]
               => fc.out.args
                    = << Word("-vf"),
                         Chain(<<Stage("eq", <<0, One, One, One>>, <<>>)>>) >>

\* C14 witness: an all-default FilterSettings and nothing else, built into
\* two arguments.
C14_Witness ==
    /\ fc.built
    /\ fc.options = [DefaultOptions EXCEPT !.filters = Some(DefaultFilterSettings)]
    /\ Len(fc.out.args) = 2
    /\ StagesNamed(VideoChain(fc.out.args), "eq") = 1

\* The stages of the audio chain an argument list carries: the value of -af.
AudioChain(args) ==
    IF \E i \in 1..Len(args) : WordAt(args, i, "-af")
    THEN args[(CHOOSE i \in 1..Len(args) : WordAt(args, i, "-af")) + 1].stages
    ELSE <<>>

\* The fade-out stages of a chain: fade or afade with t=out; their numbers
\* are st and d.
FadeOuts(chain) ==
    {chain[i] : i \in {k \in 1..Len(chain) :
                         /\ chain[k].name \in {"fade", "afade"}
                         /\ chain[k].strs = <<"out">>}}

\* C15: every fade-out emitted, video or audio, starts at
\* max(0, (end - start) - d), where start is the trim start or 0, end the
\* trim end or total_duration, and d its duration; the start is never
\* negative; a fade-out is emitted exactly for a positive duration.
C15_FadeOutStartClamped ==
    fc.built =>
      LET start == IF fc.options.start_time.some
                   THEN fc.options.start_time.v ELSE 0
          end == IF fc.options.end_time.some
                 THEN fc.options.end_time.v ELSE fc.total_duration
          tr == fc.options.video_transform
          af == fc.options.audio_filters
          outs == FadeOuts(VideoChain(fc.out.args))
                  \cup FadeOuts(AudioChain(fc.out.args))
      IN  /\ \A stage \in outs :
               LET st == stage.nums[1]
                   d == stage.nums[2]
               IN  /\ d > 0
                   /\ st >= 0
                   /\ st = (IF (end - start) - d >= 0
                            THEN (end - start) - d ELSE 0)
          /\ (FadeOuts(VideoChain(fc.out.args)) # {})
               <=> (tr.some /\ tr.v.fade_out_duration > 0)
          /\ (FadeOuts(AudioChain(fc.out.args)) # {})
               <=> (af.some /\ af.v.fade_out_duration > 0)
          /\ \A stage \in FadeOuts(VideoChain(fc.out.args)) :
               stage.nums[2] = tr.v.fade_out_duration
          /\ \A stage \in FadeOuts(AudioChain(fc.out.args)) :
               stage.nums[2] = af.v.fade_out_duration

\* C15 witness: a video fade-out longer than the trimmed span, clamped to
\* start at 0.
C15_Witness ==
    /\ fc.built
    /\ fc.options.start_time.some
    /\ fc.options.end_time.some
    /\ fc.options.end_time.v > fc.options.start_time.v
    /\ \E stage \in FadeOuts(VideoChain(fc.out.args)) :
         /\ stage.nums[1] = 0
         /\ stage.nums[2] > fc.options.end_time.v - fc.options.start_time.v

\* C16: setpts (with 1/speed) and atempo (with the speed) are emitted
\* together or not at all, exactly when a playback speed other than 1.0 is
\* given; with playback_speed = 2.0 and nothing else set the arguments are
\* -vf setpts=0.5*PTS -af atempo=2.
C16_SpeedStagesShareTrigger ==
    fc.built =>
      LET video == VideoChain(fc.out.args)
          audio == AudioChain(fc.out.args)
          speed == fc.options.playback_speed
          changed == speed.some /\ speed.v # One
      IN  /\ StagesNamed(video, "setpts") = StagesNamed(audio, "atempo")
          /\ StagesNamed(video, "setpts") = (IF changed THEN 1 ELSE 0)
          /\ changed =>
               /\ \E i \in 1..Len(video) :
                    video[i] = Stage("setpts", <<(One * One) \div speed.v>>, <<>>)
               /\ \E i \in 1..Len(audio) :
                    audio[i] = Stage("atempo", <<speed.v>>, <<>>)
          /\ fc.options = [DefaultOptions EXCEPT !.playback_speed = Some(2 * One)]
               => fc.out.args
                    = << Word("-vf"),
                         Chain(<<Stage("setpts", <<One \div 2>>, <<>>)>>),
                         Word("-af"),
                         Chain(<<Stage("atempo", <<2 * One>>, <<>>)>>) >>

\* C16 witness: playback_speed = 2.0 alone, built into four arguments.
C16_Witness ==
    /\ fc.built
    /\ fc.options = [DefaultOptions EXCEPT !.playback_speed = Some(2 * One)]
    /\ Len(fc.out.args) = 4
    /\ StagesNamed(VideoChain(fc.out.args), "setpts") = 1
    /\ StagesNamed(AudioChain(fc.out.args), "atempo") = 1

\* An argument list without its audio parts: -af with its value, and the
\* pair -map 0:a.
RECURSIVE DropAudio(_)
DropAudio(args) ==
    IF args = <<>>
    THEN <<>>
    ELSE IF Len(args) >= 2 /\ args[1] = Word("-af")
    THEN DropAudio(SubSeq(args, 3, Len(args)))
    ELSE IF Len(args) >= 2 /\ args[1] = Word("-map") /\ args[2] = Word("0:a")
    THEN DropAudio(SubSeq(args, 3, Len(args)))
    ELSE <<Head(args)>> \o DropAudio(Tail(args))

\* C17: the preview's filter arguments are the builder's arguments with
\* exactly the audio parts removed: -af with its value and the pair
\* -map 0:a are dropped; -vf with its value, -filter_complex with its value
\* and the pair -map [outv] are kept whole.
C17_PreviewDropsExactlyAudio ==
    fc.previewed => fc.preview = DropAudio(fc.out.args)

\* C18: for a line with a time token H:M:S, parse_progress returns
\* time = H*3600 + M*60 + S; percent = min(100, 100*time/D) when D > 0 and
\* percent = 0 when D <= 0; the percent lies within 0..100. The percent is
\* the fraction percent_num / percent_den.
C18_ProgressTimeAndPercent ==
    (pp.called /\ pp.line.has_time) =>
      LET time == pp.line.h * 3600 + pp.line.m * 60 + pp.line.s
          D == pp.duration
          num == pp.out.percent_num
          den == pp.out.percent_den
      IN  /\ pp.out.some
          /\ pp.out.time = time
          /\ den > 0
          /\ (D > 0 /\ 100 * time <= 100 * D) => num * D = 100 * time * den
          /\ (D > 0 /\ 100 * time >= 100 * D) => num = 100 * den
          /\ D <= 0 => num = 0
          /\ 0 <= num /\ num <= 100 * den

\* C18 witness: a time past the total duration, reported as 100 percent.
C18_Witness ==
    /\ pp.called
    /\ pp.line.has_time
    /\ pp.duration > 0
    /\ pp.out.time > pp.duration
    /\ pp.out.percent_num = 100 * pp.out.percent_den

\* C19: parse_progress returns a record if and only if the line has a time
\* token; the record's speed is the speed token, or "N/A" without one, and
\* its size the size token, or "0kB" without one.
C19_RecordIffTimeToken ==
    pp.called =>
      /\ pp.out.some <=> pp.line.has_time
      /\ ~pp.line.has_time => pp.out = NoProgress
      /\ pp.line.has_time =>
           /\ pp.out.speed = (IF pp.line.speed = "" THEN "N/A" ELSE pp.line.speed)
           /\ pp.out.size = (IF pp.line.size = "" THEN "0kB" ELSE pp.line.size)

\* C19 witness: a line with a time token and a size token but no speed
\* token, parsed into a record with speed "N/A".
C19_Witness ==
    /\ pp.called
    /\ pp.line.has_time
    /\ pp.line.speed = ""
    /\ pp.line.size = "1024kB"
    /\ pp.out.some
    /\ pp.out.speed = "N/A"
    /\ pp.out.size = "1024kB"

\* The percent of a Progress event lies within 0..100.
PercentInRange(e) ==
    /\ e.percent_den > 0
    /\ 0 <= e.percent_num
    /\ e.percent_num <= 100 * e.percent_den

\* C20: every Progress event emitted, by convert_media and merge_media on
\* the conversion channel and by download_video on the download channel,
\* carries a percent within 0..100, whatever lines the tools print.
C20_PercentWithinRange ==
    /\ \A i \in 1..Len(cv.events) : PercentInRange(cv.events[i])
    /\ \A i \in 1..Len(mg.events) : PercentInRange(mg.events[i])
    /\ \A i \in 1..Len(dl.events) : PercentInRange(dl.events[i])

\* A line carries one of the three markers; the path it names.
Marked(line) == line.dest # "" \/ line.already # "" \/ line.merging # ""

MarkedPath(line) ==
    IF line.merging # "" THEN line.merging
    ELSE IF line.dest # "" THEN line.dest
    ELSE line.already

\* The path named by the last marked line of a sequence, "" without one.
RECURSIVE LastMarkedPath(_)
LastMarkedPath(lines) ==
    IF lines = <<>>
    THEN ""
    ELSE IF Marked(lines[Len(lines)])
    THEN MarkedPath(lines[Len(lines)])
    ELSE LastMarkedPath(SubSeq(lines, 1, Len(lines) - 1))

\* C21: a download that succeeds returns the path named by the last line
\* read that carries one of the three markers, and returns the generic
\* "Download complete (check output folder)" only when no line read carried
\* a marker.
C21_ReturnsLastMarkedPath ==
    (dl.pc = "Done" /\ dl.result = "Ok") =>
      dl.returned = (IF LastMarkedPath(dl.lines_read) = ""
                     THEN GenericDone
                     ELSE LastMarkedPath(dl.lines_read))

\* C22: convert_media reports its failures under pairwise distinct reasons
\* (probe timeout, probe launch failure, ffmpeg launch failure, non-zero exit,
\* cancellation). The probe and launch failures are reported before any child
\* exists, the non-zero exit only for a child that exited with one, and the
\* cancellation only when the job saw the flag set by a cancel_conversion call
\* made after its entry, and killed its child. A child that exits non-zero
\* on a job whose flag was never set, and whose status wait() returns, is
\* always reported as "FFmpeg conversion failed".
C22_FailureReasons ==
    /\ Cardinality({ErrProbeTimeout, ErrProbeLaunch, ErrSpawn,
                    ErrFailed, ErrCancelled}) = 5
    /\ cv.result \in {ErrProbeTimeout, ErrProbeLaunch, ErrSpawn}
         => (cv.child = "none" /\ cv.lines_read = <<>>)
    /\ cv.result = ErrFailed => (cv.child = "exited" /\ ~cv.exit_ok)
    /\ cv.result = ErrCancelled
         => (cv.cancel_since_entry /\ cv.flag_at_end /\ cv.kill_called
             /\ cv.lines_read # <<>>)
    /\ (cv.pc = "Done" /\ cv.child = "exited" /\ ~cv.exit_ok
          /\ ~cv.cancel_since_entry /\ cv.result # ErrWait)
         => cv.result = ErrFailed

C22_Witness ==
    /\ cv.pc = "Done"
    /\ cv.result = ErrFailed
    /\ ~cv.cancel_since_entry
    /\ cv.lines_read # <<>>

\* C23: a conversion job that was entered always reaches a terminal outcome
\* (its child writes finitely many lines and exits whenever its writes
\* return); it never waits forever on a child stopped in a write to the
\* standard output pipe.
C23_ConvertTerminates == InFlight(cv) ~> (cv.pc = "Done")

\* What does hold: a conversion either ends or its child is stopped in a
\* write to the pipe nobody reads.
ConvertEndsUnlessBlocked ==
    InFlight(cv) ~> (cv.pc = "Done" \/ cv.child = "blocked")

\* C24: a cancellation requested for a conversion in flight stays pending
\* until the conversion looks at the flag: while the conversion can still
\* check it (probing or reading lines), no step of any command sets the flag
\* back to false.
C24_CancelStaysPending ==
    [][(CANCELLED /\ cv.pc \in {"Probing", "Running"}) => CANCELLED']_vars

\* C25: a probe that hands back an Output never fails the conversion,
\* whatever its exit status and its standard output: the job goes on to spawn
\* ffmpeg. When the output holds no Duration pattern the total duration is 0,
\* every progress event parsed from a line reports percent 0, and a job that
\* succeeds ends with the final event of percent 100 and time 0.
C25_ProbeOutputNeverFails ==
    cv.probe = "output" =>
      /\ cv.result \notin {ErrProbeTimeout, ErrProbeLaunch}
      /\ cv.child # "none" \/ cv.result = ErrSpawn
      /\ cv.total_duration = parse_duration(cv.probe_output.stdout)
      /\ ~cv.probe_output.stdout.has =>
           /\ cv.total_duration = 0
           /\ \A i \in 1..Len(cv.events) :
                ~IsFinalEvent(cv.events[i]) => cv.events[i].percent_num = 0
           /\ (cv.pc = "Done" /\ cv.result = "Ok") =>
                /\ cv.events # <<>>
                /\ cv.events[Len(cv.events)] = DoneProgress(0)

\* A probe that exited non-zero and printed no duration, and a conversion
\* that then parsed a progress line and succeeded.
C25_Witness ==
    /\ cv.probe = "output"
    /\ ~cv.probe_output.success
    /\ ~cv.probe_output.stdout.has
    /\ cv.pc = "Done" /\ cv.result = "Ok"
    /\ Len(cv.events) > 1

\* A step that enters one of the three commands that reset the flag.
CancellableEntry ==
    \/ cv.pc = "Idle" /\ cv'.pc # "Idle"
    \/ mg.pc = "Idle" /\ mg'.pc # "Idle"
    \/ dl.pc = "Idle" /\ dl'.pc # "Idle"

\* C26: merge_media never reads the flag after resetting it at its entry.
\* Whatever cancel_conversion calls arrive while a merge is running, the merge
\* never kills its child and never returns "Cancelled by user"; it ends in
\* success or in a launch, wait or non-zero-exit failure, with the flag still
\* set; and a set flag stays set until a step that enters convert_media,
\* merge_media or download_video resets it.
C26_MergeIgnoresCancel ==
    /\ [](/\ ~mg.kill_called
          /\ mg.result # ErrCancelled
          /\ mg.child # "killed"
          /\ (mg.pc = "Done" /\ mg.cancel_since_entry) =>
               /\ mg.result \in {"Ok", ErrMergeSpawn, ErrMergeWait, ErrMergeFail}
               /\ mg.flag_at_end)
    /\ [][(CANCELLED /\ ~CANCELLED') => CancellableEntry]_vars
    /\ [][(CANCELLED /\ InFlight(mg)) => CANCELLED']_vars

\* A merge that was asked to cancel while its child ran, and succeeded.
C26_Witness ==
    /\ mg.pc = "Done"
    /\ mg.cancel_since_entry
    /\ mg.result = "Ok"
    /\ mg.flag_at_end
    /\ CANCELLED

====
